---- MODULE Spec2Model ----
(***************************************************************************)
(* A model of cubatrice-core: the GameState record store, its validate    *)
(* predicate over RecordType values, the (empty) apply operation and the  *)
(* get_player_cubes query; the Fraction and Deck types of lib.rs; the     *)
(* Convert trait and its implementors; CubeRecord::split; the FactionType  *)
(* tables.                                                                 *)
(*                                                                         *)
(* Conventions.  Option<T> is a sequence of length at most one: <<>> is    *)
(* None and <<x>> is Some(x).  A HashMap is a function whose DOMAIN is its *)
(* key set.  A Vec is a sequence (index 0 of the Vec is index 1 here).     *)
(* The outcome of validate is "true", "false" or "todo!" (the panic of    *)
(* the todo!() arm).  An operation that can divide by zero returns Panic   *)
(* or Ok(value).                                                           *)
(***************************************************************************)
EXTENDS Integers, Sequences, FiniteSets, TLC

VARIABLES game, call, ret, before, log, frac, conv, data, record, ftype, deck

vars == <<game, call, ret, before, log, frac, conv, data, record, ftype, deck>>

(***************************************************************************)
(* Bounds of the model.                                                    *)
(***************************************************************************)
MaxPlayer == 1
MaxCube == 1
MaxItem == 0
MaxBid == 2
MaxLog == 2
MaxConfluence == 2
UsizeBits == 5
MaxFrac == 6
MaxArg == 2
MaxScale == 3
MaxRate == 2
MaxTurns == 3
MaxTechID == 22
MaxAlt == 4

\* Distinct item values of a Deck, and the longest Deck.
MaxCard == 2

MaxDeck == 3

PlayerIDs == 0..MaxPlayer
CubeIDs == 0..MaxCube
ColonyIDs == 0..MaxItem
ConverterIDs == 0..MaxItem
TechIDs == 0..MaxItem

(***************************************************************************)
(* Option and HashMap helpers.                                             *)
(***************************************************************************)
None == <<>>

Some(x) == <<x>>

OptionOf(S) == {None} \cup {Some(x) : x \in S}

EmptyMap == [k \in {} |-> k]

Get(m, k) == IF k \in DOMAIN m THEN Some(m[k]) ELSE None

PartialMaps(K, V) == UNION {[D -> V] : D \in SUBSET K}

(***************************************************************************)
(* lib.rs: Fraction.  isize `/` truncates toward zero and `%` takes the    *)
(* sign of the dividend; both panic on a zero divisor, which the callers   *)
(* below test first.                                                       *)
(***************************************************************************)
Panic == <<>>

Ok(x) == <<x>>

abs(x) == IF x < 0 THEN -x ELSE x

\* a / b of isize, b # 0.
idiv(a, b) ==
    IF (a < 0) = (b < 0) THEN abs(a) \div abs(b) ELSE -(abs(a) \div abs(b))

\* a % b of isize, b # 0.
rem(a, b) == IF a < 0 THEN -(abs(a) % abs(b)) ELSE abs(a) % abs(b)

RECURSIVE gcd(_, _)
gcd(a, b) == IF b = 0 THEN a ELSE gcd(b, rem(a, b))

Fraction(n, d) == [n |-> n, d |-> d]

\* reduce that divides the numerator only.
reduce_NumeratorOnly(f) ==
    LET g == gcd(f.n, f.d)
    IN  IF g = 0 THEN Panic ELSE Ok(Fraction(idiv(f.n, g), f.d))

\* Fraction::reduce, as a function of the fraction: `self.n /= gcd` panics when
\* gcd is 0.
reduce(f) ==
    LET g == gcd(f.n, f.d)
    IN  IF g = 0 THEN Panic ELSE Ok(Fraction(idiv(f.n, g), idiv(f.d, g)))

\* Ord::cmp of isize.
isize_cmp(x, y) == IF x < y THEN "Less" ELSE IF x = y THEN "Equal" ELSE "Greater"

\* Ord for Fraction.
Fraction_cmp(self, other) == isize_cmp(self.n * other.d, self.d * other.n)

Fraction_new(n, d) == reduce(Fraction(n, d))

Fraction_reciprocal(f) == Fraction(f.d, f.n)

Fraction_add(a, b) == reduce(Fraction((a.n * b.d) + (b.n * a.d), a.d * b.d))

Fraction_add_isize(a, k) == reduce(Fraction(a.n + (a.d * k), a.d))

Fraction_neg(a) == Fraction(-a.n, a.d)

Fraction_sub(a, b) == Fraction_add(a, Fraction_neg(b))

Fraction_sub_isize(a, k) == Fraction_add_isize(a, -k)

Fraction_mul(a, b) == reduce(Fraction(a.n * b.n, a.d * b.d))

Fraction_mul_isize(a, k) == reduce(Fraction(a.n * k, a.d))

Fraction_div(a, b) == Fraction_mul(a, Fraction_reciprocal(b))

Fraction_div_isize(a, k) == Fraction(a.n, a.d * k)

(***************************************************************************)
(* state/mod.rs: Phase, Confluence.                                        *)
(***************************************************************************)
Phase == {"Init", "Trade", "Economy", "ColonyBid", "TechBid", "ZethSteal",
          "Resolution", "Finish"}

ConfluenceDefault == 1

(***************************************************************************)
(* entity/faction/mod.rs: FactionType and bifurcate.                       *)
(***************************************************************************)
CoreFactions == {"CaylionCore", "EniEtCore", "FaderanCore", "ImdrilCore", "KitCore",
                 "KjasCore", "YengiiCore", "UnityCore", "ZethCore"}

AltFactions == {"CaylionAlt", "EniEtAlt", "FaderanAlt", "ImdrilAlt", "KitAlt",
                "KjasAlt", "YengiiAlt", "UnityAlt", "ZethAlt"}

FactionType == CoreFactions \cup AltFactions

\* bifurcate with the alternates of Yengii and Unity exchanged.
bifurcate_YengiiUnity(f) ==
    CASE f = "CaylionCore" -> "CaylionAlt"
      [] f = "EniEtCore" -> "EniEtAlt"
      [] f = "FaderanCore" -> "FaderanAlt"
      [] f = "ImdrilCore" -> "ImdrilAlt"
      [] f = "KitCore" -> "KitAlt"
      [] f = "KjasCore" -> "KjasAlt"
      [] f = "YengiiCore" -> "UnityAlt"
      [] f = "UnityCore" -> "YengiiAlt"
      [] f = "ZethCore" -> "ZethAlt"
      [] f = "CaylionAlt" -> "CaylionCore"
      [] f = "EniEtAlt" -> "EniEtCore"
      [] f = "FaderanAlt" -> "FaderanCore"
      [] f = "ImdrilAlt" -> "ImdrilCore"
      [] f = "KitAlt" -> "KitCore"
      [] f = "KjasAlt" -> "KjasCore"
      [] f = "YengiiAlt" -> "YengiiCore"
      [] f = "UnityAlt" -> "UnityCore"
      [] f = "ZethAlt" -> "ZethCore"

bifurcate(f) ==
    CASE f = "CaylionCore" -> "CaylionAlt"
      [] f = "EniEtCore" -> "EniEtAlt"
      [] f = "FaderanCore" -> "FaderanAlt"
      [] f = "ImdrilCore" -> "ImdrilAlt"
      [] f = "KitCore" -> "KitAlt"
      [] f = "KjasCore" -> "KjasAlt"
      [] f = "YengiiCore" -> "YengiiAlt"
      [] f = "UnityCore" -> "UnityAlt"
      [] f = "ZethCore" -> "ZethAlt"
      [] f = "CaylionAlt" -> "CaylionCore"
      [] f = "EniEtAlt" -> "EniEtCore"
      [] f = "FaderanAlt" -> "FaderanCore"
      [] f = "ImdrilAlt" -> "ImdrilCore"
      [] f = "KitAlt" -> "KitCore"
      [] f = "KjasAlt" -> "KjasCore"
      [] f = "YengiiAlt" -> "YengiiCore"
      [] f = "UnityAlt" -> "UnityCore"
      [] f = "ZethAlt" -> "ZethCore"

short_name(f) ==
    CASE f \in {"CaylionCore", "CaylionAlt"} -> "Caylion"
      [] f \in {"EniEtCore", "EniEtAlt"} -> "Eni Et"
      [] f \in {"FaderanCore", "FaderanAlt"} -> "Faderan"
      [] f \in {"ImdrilCore", "ImdrilAlt"} -> "Imdril"
      [] f \in {"KitCore", "KitAlt"} -> "Kit"
      [] f \in {"KjasCore", "KjasAlt"} -> "Kjas"
      [] f \in {"UnityCore", "UnityAlt"} -> "Unity"
      [] f \in {"YengiiCore", "YengiiAlt"} -> "Yengii"
      [] f \in {"ZethCore", "ZethAlt"} -> "Zeth"

\* FactionType::core() and FactionType::bifurcation(), as the Vecs they return.
core ==
    <<"CaylionCore", "EniEtCore", "FaderanCore", "ImdrilCore", "KitCore", "KjasCore",
      "YengiiCore", "UnityCore", "ZethCore">>

bifurcation ==
    <<"CaylionAlt", "EniEtAlt", "FaderanAlt", "ImdrilAlt", "KitAlt", "KjasAlt",
      "YengiiAlt", "UnityAlt", "ZethAlt">>

(***************************************************************************)
(* entity/cube.rs: CubeType, Cube, CubeRecord.                             *)
(***************************************************************************)
CubeType == {"Ship", "Culture", "Food", "Industry", "UnitySmall", "AnySmall",
             "AnySmallNonUnity", "Power", "Biotech", "Information", "UnityLarge",
             "AnyLarge", "AnyLargeNonUnity", "Ultratech", "VictoryPoint"}

is_virtual(t) == t \in {"AnySmall", "AnySmallNonUnity", "AnyLarge", "AnyLargeNonUnity"}

Cube(typ, donation) == [typ |-> typ, donation |-> donation]

CubeRecordDefault ==
    [food |-> 0, culture |-> 0, industry |-> 0, small_wild |-> 0, biotech |-> 0,
     power |-> 0, information |-> 0, large_wild |-> 0, ultratech |-> 0, ships |-> 0,
     points |-> 0]

\* The slot that one cube of type t increments in from_iter; "" is the `_ => {}` arm.
from_iter_slot(t) ==
    CASE t = "Ship" -> "ships"
      [] t = "Culture" -> "culture"
      [] t = "Food" -> "food"
      [] t = "Industry" -> "industry"
      [] t = "UnitySmall" -> "small_wild"
      [] t = "Biotech" -> "biotech"
      [] t = "Power" -> "power"
      [] t = "Information" -> "information"
      [] t = "UnityLarge" -> "large_wild"
      [] t = "VictoryPoint" -> "points"
      [] OTHER -> ""

\* FromIterator<&Cube> for CubeRecord, over the cubes cs[k], k in the key set ks.
from_iter(cs, ks) ==
    [slot \in DOMAIN CubeRecordDefault |->
        Cardinality({k \in ks : from_iter_slot(cs[k].typ) = slot})]

count_type(r, typ) ==
    CASE typ = "Ship" -> r.ships
      [] typ = "Food" -> r.food
      [] typ = "Culture" -> r.culture
      [] typ = "Industry" -> r.industry
      [] typ = "UnitySmall" -> r.small_wild
      [] typ = "AnySmall" -> r.food + r.culture + r.industry + r.small_wild
      [] typ = "AnySmallNonUnity" -> r.food + r.culture + r.industry
      [] typ = "Power" -> r.power
      [] typ = "Information" -> r.information
      [] typ = "Biotech" -> r.biotech
      [] typ = "UnityLarge" -> r.large_wild
      [] typ = "AnyLarge" -> r.power + r.information + r.biotech + r.large_wild
      [] typ = "AnyLargeNonUnity" -> r.power + r.information + r.biotech
      [] typ = "Ultratech" -> r.ultratech
      [] typ = "VictoryPoint" -> r.points

(***************************************************************************)
(* state/mod.rs: GameState.  The fields kept are the ones validate, apply  *)
(* and get_player_cubes read or write; data_tech is data.tech with each    *)
(* Technology reduced to its cost list.                                    *)
(***************************************************************************)
GameStateDefault ==
    [phase |-> "Init",
     confluence |-> ConfluenceDefault,
     data_tech |-> EmptyMap,
     converter_owners |-> EmptyMap,
     untradable_converters |-> {},
     cubes |-> EmptyMap,
     cube_owners |-> EmptyMap,
     tech_team_owners |-> EmptyMap,
     player_colony_bid |-> EmptyMap,
     player_tech_bid |-> EmptyMap,
     colony_bid_track |-> <<>>,
     colony_bid_order |-> <<>>,
     tech_bid_order |-> <<>>,
     tech_bid_track |-> <<>>,
     colony_owners |-> EmptyMap,
     factions |-> EmptyMap]

\* GameData::default(), reduced to its colony map.
GameDataDefault == [colony |-> EmptyMap]

\* No Convert implementor is under test.
NoConvertible == [kind |-> "none"]

\* GameState::new(data)
new(data_tech) == [GameStateDefault EXCEPT !.data_tech = data_tech]

get_player_cubes(self, id) ==
    from_iter(self.cubes,
              {k \in DOMAIN self.cube_owners :
                  self.cube_owners[k] = id /\ k \in DOMAIN self.cubes})

(***************************************************************************)
(* Rust library operations used by validate.                               *)
(***************************************************************************)
is_some(o) == o # None

\* The values an Option holds: Option::is_some_and with closure f is
\* \E x \in as_set(o) : f(x).
as_set(o) == {o[i] : i \in DOMAIN o}

unwrap_or(o, d) == IF o = None THEN d ELSE o[1]

max(x, y) == IF x >= y THEN x ELSE y

min(x, y) == IF x <= y THEN x ELSE y

\* usize, scaled down to UsizeBits bits: the largest value, and `+` as a build
\* without overflow checks computes it (with them, the overflowing sum panics).
usize_MAX == 2 ^ UsizeBits - 1

usize_add(x, y) == (x + y) % (usize_MAX + 1)

\* Vec::get(i), i counted from 0.
VecGet(v, i) == IF i + 1 \in DOMAIN v THEN Some(v[i + 1]) ELSE None

\* cost.iter().find(|t| t.typ == typ): the first TechCost of `cost` with that type.
find_typ(cost, typ) ==
    LET hits == {i \in DOMAIN cost : cost[i].typ = typ}
    IN  IF hits = {} THEN None
        ELSE Some(cost[CHOOSE i \in hits : \A j \in hits : i <= j])

(***************************************************************************)
(* state/mod.rs: GameState::validate, one operator per match arm.          *)
(***************************************************************************)
validate_CreatePlayer(self, rec) ==
    Cardinality({p \in DOMAIN self.factions :
                    \/ p = rec.player
                    \/ self.factions[p] = rec.faction
                    \/ self.factions[p] = bifurcate(rec.faction)}) = 0

\* validate_ChangePhase without the ZethSteal -> Trade edge.
validate_ChangePhase_NoLoop(self, rec) ==
    CASE rec.to = "Init" -> FALSE
      [] rec.to = "Trade" -> self.phase = "Init"
      [] rec.to = "Economy" -> self.phase = "Trade"
      [] rec.to = "ColonyBid" -> self.phase = "Economy"
      [] rec.to = "TechBid" -> self.phase = "ColonyBid"
      [] rec.to = "ZethSteal" -> self.phase = "TechBid"
      [] rec.to = "Resolution" -> self.phase = "Economy"
      [] rec.to = "Finish" -> self.phase = "Resolution"

validate_ChangePhase(self, rec) ==
    CASE rec.to = "Init" -> FALSE
      [] rec.to = "Trade" -> self.phase = "Init" \/ self.phase = "ZethSteal"
      [] rec.to = "Economy" -> self.phase = "Trade"
      [] rec.to = "ColonyBid" -> self.phase = "Economy"
      [] rec.to = "TechBid" -> self.phase = "ColonyBid"
      [] rec.to = "ZethSteal" -> self.phase = "TechBid"
      [] rec.to = "Resolution" -> self.phase = "Economy"
      [] rec.to = "Finish" -> self.phase = "Resolution"

\* validate_TradeCubes that accepts trades in the Trade phase only.
validate_TradeCubes_InTrade(self, rec) ==
    /\ self.phase = "Trade"
    /\ rec.a # rec.b
    /\ \A c \in rec.a_cubes :
          \E id \in as_set(Get(self.cube_owners, c)) : id = rec.a
    /\ \A c \in rec.b_cubes :
          \E id \in as_set(Get(self.cube_owners, c)) : id = rec.b

validate_TradeCubes(self, rec) ==
    /\ rec.a # rec.b
    /\ \A c \in rec.a_cubes :
          \E id \in as_set(Get(self.cube_owners, c)) : id = rec.a
    /\ \A c \in rec.b_cubes :
          \E id \in as_set(Get(self.cube_owners, c)) : id = rec.b

validate_TradeColony(self, rec) ==
    /\ rec.a # rec.b
    /\ \A c \in rec.a_colony :
          \E id \in as_set(Get(self.colony_owners, c)) : id = rec.a
    /\ \A c \in rec.b_colony :
          \E id \in as_set(Get(self.colony_owners, c)) : id = rec.b

\* validate_TradeConverter without the untradable check on b's converters.
validate_TradeConverter_BUnchecked(self, rec) ==
    /\ rec.a # rec.b
    /\ \A c \in rec.a_converter :
          /\ c \notin self.untradable_converters
          /\ \E id \in as_set(Get(self.converter_owners, c)) : id = rec.a
    /\ \A c \in rec.b_converter :
          \E id \in as_set(Get(self.converter_owners, c)) : id = rec.b

validate_TradeConverter(self, rec) ==
    /\ rec.a # rec.b
    /\ \A c \in rec.a_converter :
          /\ c \notin self.untradable_converters
          /\ \E id \in as_set(Get(self.converter_owners, c)) : id = rec.a
    /\ \A c \in rec.b_converter :
          /\ c \notin self.untradable_converters
          /\ \E id \in as_set(Get(self.converter_owners, c)) : id = rec.b

\* `ships` of the Bid arm: the owned cubes that exist in `cubes` with type Ship.
bid_ships(self, player) ==
    Cardinality({k \in DOMAIN self.cube_owners :
                    /\ self.cube_owners[k] = player
                    /\ k \in DOMAIN self.cubes
                    /\ self.cubes[k].typ = "Ship"})

\* split_rejected with a missing faction taken to be the splitting faction.
split_rejected_DefaultMatches(self, player, half, whole, faction) ==
    \E b \in as_set(half) :
        \/ unwrap_or(Get(self.factions, player), faction) # faction
        \/ max(b, whole) - min(b, whole) > 1

\* The is_some_and test of a split half: true when the half makes the bid illegal.
split_rejected(self, player, half, whole, faction) ==
    \E b \in as_set(half) :
        \/ unwrap_or(Get(self.factions, player), "KitCore") # faction
        \/ max(b, whole) - min(b, whole) > 1

validate_Bid(self, rec) ==
    /\ rec.player \notin DOMAIN self.player_colony_bid
    /\ rec.player \notin DOMAIN self.player_tech_bid
    /\ ~split_rejected(self, rec.player, rec.for_colony_kjas, rec.for_colony, "KjasCore")
    /\ ~split_rejected(self, rec.player, rec.for_tech_faderan, rec.for_tech, "FaderanAlt")
    /\ bid_ships(self, rec.player) >=
          usize_add(usize_add(usize_add(rec.for_colony,
                                        unwrap_or(rec.for_colony_kjas, 0)),
                              rec.for_tech),
                    unwrap_or(rec.for_tech_faderan, 0))

validate_TakeColony(self, rec) ==
    /\ \E p \in as_set(VecGet(self.colony_bid_order, 0)) : p = rec.player
    /\ IF rec.colony = None THEN TRUE
       ELSE is_some(VecGet(self.colony_bid_track, rec.colony[1]))

validate_TakeResearch(self, rec) ==
    /\ \E p \in as_set(VecGet(self.tech_bid_order, 0)) : p = rec.player
    /\ IF rec.tech = None THEN TRUE
       ELSE is_some(VecGet(self.tech_bid_track, rec.tech[1]))

validate_InventTech(self, rec) ==
    /\ \E p \in as_set(Get(self.tech_team_owners, rec.tech)) : p = rec.player
    /\ \E t \in as_set(Get(self.data_tech, rec.tech)) :
          \E c \in as_set(find_typ(t, rec.cost)) :
             count_type(get_player_cubes(self, rec.player), c.typ) >= c.qty

Outcome(b) == IF b THEN "true" ELSE "false"

validate(self, rec) ==
    CASE rec.type = "CreatePlayer" -> Outcome(validate_CreatePlayer(self, rec))
      [] rec.type = "ChangePhase" -> Outcome(validate_ChangePhase(self, rec))
      [] rec.type = "TradeCubes" -> Outcome(validate_TradeCubes(self, rec))
      [] rec.type = "TradeColony" -> Outcome(validate_TradeColony(self, rec))
      [] rec.type = "TradeConverter" -> Outcome(validate_TradeConverter(self, rec))
      [] rec.type = "Bid" -> Outcome(validate_Bid(self, rec))
      [] rec.type = "TakeColony" -> Outcome(validate_TakeColony(self, rec))
      [] rec.type = "TakeResearch" -> Outcome(validate_TakeResearch(self, rec))
      [] rec.type = "InventTech" -> Outcome(validate_InventTech(self, rec))
      [] OTHER -> "todo!"

\* GameState::apply: the body is empty.
apply(self, group) == self

(***************************************************************************)
(* entity/mod.rs: Item and Upgrade.  Every Item is a record of the same    *)
(* three fields; a variant without a quantity keeps qty 0.                 *)
(***************************************************************************)
Cubes(typ, qty) == [kind |-> "Cubes", typ |-> typ, qty |-> qty]

DonationCubes(typ, qty) == [kind |-> "DonationCubes", typ |-> typ, qty |-> qty]

ItemColony(colony_type) == [kind |-> "Colony", typ |-> colony_type, qty |-> 0]

UpgradeCubes(typ, qty) == [kind |-> "Cubes", typ |-> typ, qty |-> qty]

UpgradeConverterCard(tech) == [kind |-> "ConverterCard", tech |-> tech]

(***************************************************************************)
(* entity/cube.rs: CubeType::value.                                        *)
(***************************************************************************)
CubeType_value(t) ==
    CASE t \in {"Culture", "Food", "Industry", "Ship", "UnitySmall", "AnySmall",
                "AnySmallNonUnity"} -> Fraction_new(1, 1)[1]
      [] t \in {"Power", "Biotech", "Information", "UnityLarge", "AnyLarge",
                "AnyLargeNonUnity"} -> Fraction_new(3, 2)[1]
      [] t \in {"Ultratech", "VictoryPoint"} -> Fraction_new(3, 1)[1]

(***************************************************************************)
(* entity/converter.rs, entity/colony.rs, entity/technology.rs,            *)
(* entity/faction/base_faderan.rs, entity/faction/alt_kit.rs: Converter    *)
(* and the implementors of Convert.  A Convert object is a record whose    *)
(* `kind` names the implementing type.                                     *)
(***************************************************************************)
Converter(color, ins, outs) == [color |-> color, input |-> ins, output |-> outs]

Colony(name, id, typ, cv, up_cost) ==
    [kind |-> "Colony", name |-> name, id |-> id, typ |-> typ, conv |-> cv,
     up_cost |-> up_cost]

ConverterPrototype(id, name, cv) ==
    [kind |-> "ConverterPrototype", id |-> id, name |-> name, conv |-> cv]

RelicWorldNames ==
    {"GiftOfTheDuruntai", "ContextualIntegratorCache", "AutomatedTransportNetwork",
     "RelicDetector", "LibraryOfEntelechy", "TransmutiveDecomposer",
     "NalgorianGrindstone", "StarsRuin", "ParadiseConverter", "BarianTradeArmada",
     "ThilsDemiring", "TheGrandArmilla"}

RelicWorld(world) == [kind |-> "RelicWorld", world |-> world]

\* GenericStartingConverter: its inner converter, the costs of its upgrade
\* options (none when it cannot be upgraded) and the upgraded form each option
\* leads to.
GenericStartingConverter(cv, up_costs, up_convs) ==
    [kind |-> "GenericStartingConverter", conv |-> cv, up_costs |-> up_costs,
     up_convs |-> up_convs]

Generic_upgradable(g) == g.up_costs # <<>>

Generic_upgrade_opts(g) == IF Generic_upgradable(g) THEN Some(Len(g.up_costs)) ELSE None

Generic_upgrade_cost(g, alt) == VecGet(g.up_costs, alt)

\* GenericStartingConverter::upgrade: the converter becomes the upgraded form of
\* the option; nothing happens when it is already upgraded or opt is no option.
Generic_upgrade(g, gd, opt) ==
    IF Generic_upgradable(g) /\ opt < Len(g.up_costs)
    THEN [g EXCEPT !.conv = g.up_convs[opt + 1], !.up_costs = <<>>, !.up_convs = <<>>]
    ELSE g

\* KitConverter with its output cache as update_cache fills it.
KitConverter(l_conv, r_conv) ==
    [kind |-> "KitConverter", l_conv |-> l_conv, r_conv |-> r_conv,
     output_cache |-> l_conv.conv.output \o r_conv.conv.output]

RelicWorld_input(w) ==
    CASE w = "TransmutiveDecomposer" -> <<Cubes("Ship", 2)>>
      [] w = "NalgorianGrindstone" -> <<Cubes("VictoryPoint", 1)>>
      [] w = "ParadiseConverter" -> <<ItemColony("Any")>>
      [] w = "ThilsDemiring" -> <<Cubes("Information", 1), Cubes("Power", 1)>>
      [] OTHER -> <<>>

RelicWorld_output(w) ==
    CASE w = "AutomatedTransportNetwork" -> <<Cubes("Food", 1)>>
      [] w = "LibraryOfEntelechy" ->
            <<DonationCubes("VictoryPoint", 1), DonationCubes("Information", 1),
              DonationCubes("Food", 1), DonationCubes("Culture", 1)>>
      [] w = "TransmutiveDecomposer" ->
            <<Cubes("Ultratech", 1), Cubes("Power", 1), Cubes("Industry", 1),
              Cubes("Food", 1)>>
      [] w = "NalgorianGrindstone" ->
            <<Cubes("Biotech", 1), Cubes("Information", 1), Cubes("Industry", 1),
              Cubes("Food", 1)>>
      [] w = "ParadiseConverter" -> <<Cubes("VictoryPoint", 2)>>
      [] w = "ThilsDemiring" -> <<Cubes("VictoryPoint", 2)>>
      [] w = "TheGrandArmilla" -> <<Cubes("Ship", 4)>>
      [] OTHER -> <<>>

\* Convert::input and Convert::output of each implementor.
input(c) ==
    CASE c.kind = "Colony" -> c.conv.input
      [] c.kind = "ConverterPrototype" -> c.conv.input
      [] c.kind = "RelicWorld" -> RelicWorld_input(c.world)
      [] c.kind = "KitConverter" -> c.l_conv.conv.input

output(c) ==
    CASE c.kind = "Colony" -> c.conv.output
      [] c.kind = "ConverterPrototype" -> c.conv.output
      [] c.kind = "RelicWorld" -> RelicWorld_output(c.world)
      [] c.kind = "KitConverter" -> c.output_cache

is_cubes(i) == i.kind \in {"Cubes", "DonationCubes"}

\* The loop of input_value and output_value over the items, from the running sum.
RECURSIVE value_loop(_, _)
value_loop(items, sum) ==
    IF items = <<>> THEN sum
    ELSE LET i == Head(items)
         IN  value_loop(Tail(items),
                 IF is_cubes(i)
                 THEN Fraction_add(sum,
                          Fraction_mul_isize(CubeType_value(i.typ), i.qty)[1])[1]
                 ELSE sum)

input_value(c) == value_loop(input(c), Fraction_new(0, 1)[1])

output_value(c) == value_loop(output(c), Fraction_new(0, 1)[1])

\* `rate` after k rounds of `rate = rate * interest_rate`, from Fraction::new(1, 1).
RECURSIVE rate_loop(_, _)
rate_loop(interest_rate, k) ==
    IF k = 0 THEN Fraction_new(1, 1)[1]
    ELSE Fraction_mul(rate_loop(interest_rate, k - 1), interest_rate)[1]

\* The loop of input_value_adjusted and output_value_adjusted over the items.
RECURSIVE adjusted_loop(_, _, _)
adjusted_loop(items, sum, rate) ==
    IF items = <<>> THEN sum
    ELSE LET i == Head(items)
         IN  adjusted_loop(Tail(items),
                 CASE is_cubes(i) /\ i.typ = "Ship" ->
                          Fraction_add_isize(sum, i.qty)[1]
                   [] is_cubes(i) /\ i.typ = "VictoryPoint" ->
                          Fraction_add_isize(sum, 6 * i.qty)[1]
                   [] is_cubes(i) /\ i.typ \notin {"Ship", "VictoryPoint"} ->
                          Fraction_add(sum,
                              Fraction_mul(rate,
                                  Fraction_mul_isize(CubeType_value(i.typ),
                                                     i.qty)[1])[1])[1]
                   [] OTHER -> sum,
                 rate)

\* turns_left >= 1 (turns_left - 1 is a usize).
input_value_adjusted(c, interest_rate, turns_left) ==
    LET rate == rate_loop(interest_rate, turns_left - 1)
    IN  Fraction_div(adjusted_loop(input(c), Fraction_new(0, 1)[1], rate), rate)[1]

output_value_adjusted(c, interest_rate, turns_left) ==
    LET rate == rate_loop(interest_rate, turns_left - 1)
    IN  Fraction_div(adjusted_loop(output(c), Fraction_new(0, 1)[1], rate), rate)[1]

(***************************************************************************)
(* entity/technology.rs: TechID::upgrades_with.                            *)
(***************************************************************************)
upgrades_with(id) ==
    CASE id = 1 -> Some(<<2, 6>>)
      [] id = 2 -> Some(<<1, 7>>)
      [] id = 3 -> Some(<<4, 5>>)
      [] id = 4 -> Some(<<3, 7>>)
      [] id = 5 -> Some(<<3, 6>>)
      [] id = 6 -> Some(<<4, 5>>)
      [] id = 7 -> Some(<<1, 2>>)
      [] id = 8 -> Some(<<10, 12>>)
      [] id = 9 -> Some(<<11, 13>>)
      [] id = 10 -> Some(<<8, 14>>)
      [] id = 11 -> Some(<<10, 12>>)
      [] id = 12 -> Some(<<8, 11>>)
      [] id = 13 -> Some(<<9, 14>>)
      [] id = 14 -> Some(<<9, 13>>)
      [] id = 15 -> Some(<<17, 21>>)
      [] id = 16 -> Some(<<18, 20>>)
      [] id = 17 -> Some(<<19, 21>>)
      [] id = 18 -> Some(<<16, 19>>)
      [] id = 19 -> Some(<<18, 20>>)
      [] id = 20 -> Some(<<15, 16>>)
      [] id = 21 -> Some(<<15, 17>>)
      [] OTHER -> None

(***************************************************************************)
(* Convert::upgradable, upgrade_opts, upgrade_cost and upgrade of each     *)
(* implementor.                                                            *)
(***************************************************************************)
upgradable(c) ==
    CASE c.kind = "Colony" -> is_some(c.up_cost)
      [] c.kind = "ConverterPrototype" -> c.id <= 21
      [] c.kind = "RelicWorld" -> FALSE
      [] c.kind = "KitConverter" ->
            Generic_upgradable(c.l_conv) \/ Generic_upgradable(c.r_conv)

upgrade_opts(c) ==
    CASE c.kind = "Colony" -> IF upgradable(c) THEN Some(1) ELSE None
      [] c.kind = "ConverterPrototype" -> IF c.id <= 21 THEN Some(2) ELSE None
      [] c.kind = "RelicWorld" -> None
      [] c.kind = "KitConverter" ->
            IF Generic_upgradable(c.l_conv) /\ Generic_upgradable(c.r_conv)
            THEN Some(4)
            ELSE IF upgradable(c) THEN Some(2) ELSE None

upgrade_cost(c, alt) ==
    CASE c.kind = "Colony" ->
            IF alt = 0
            THEN IF c.up_cost = None THEN None
                 ELSE Some(UpgradeCubes(c.up_cost[1][1], c.up_cost[1][2]))
            ELSE None
      [] c.kind = "ConverterPrototype" ->
            IF alt = 0
            THEN IF upgrades_with(c.id) = None THEN None
                 ELSE Some(UpgradeConverterCard(upgrades_with(c.id)[1][1]))
            ELSE IF alt = 1
                 THEN IF upgrades_with(c.id) = None THEN None
                      ELSE Some(UpgradeConverterCard(upgrades_with(c.id)[1][2]))
                 ELSE None
      [] c.kind = "RelicWorld" -> None
      [] c.kind = "KitConverter" ->
            IF alt < 2 /\ Generic_upgradable(c.l_conv)
            THEN Generic_upgrade_cost(c.l_conv, alt)
            ELSE Generic_upgrade_cost(c.r_conv,
                     IF Generic_upgradable(c.l_conv) THEN alt - 2 ELSE alt)

\* Colony::upgrade that keeps the old upgrade cost.
Colony_upgrade_KeepsUpCost(self, gd, opt) ==
    IF self.id >= 100 THEN self
    ELSE LET new_data == Get(gd.colony, self.id + 100)
         IN  IF new_data = None THEN self
             ELSE [self EXCEPT !.name = new_data[1].name,
                               !.id = new_data[1].id,
                               !.typ = new_data[1].typ,
                               !.conv = new_data[1].conv]

Colony_upgrade(self, gd, opt) ==
    IF self.id >= 100 THEN self
    ELSE LET new_data == Get(gd.colony, self.id + 100)
         IN  IF new_data = None THEN self
             ELSE [self EXCEPT !.name = new_data[1].name,
                               !.id = new_data[1].id,
                               !.typ = new_data[1].typ,
                               !.conv = new_data[1].conv,
                               !.up_cost = new_data[1].up_cost]

\* KitConverter::upgrade that passes the option to the right side unshifted.
KitConverter_upgrade_NoShift(self, gd, opt) ==
    IF opt < 2 /\ Generic_upgradable(self.l_conv)
    THEN [self EXCEPT !.l_conv = Generic_upgrade(self.l_conv, gd, opt)]
    ELSE [self EXCEPT !.r_conv = Generic_upgrade(self.r_conv, gd, opt)]

\* KitConverter::upgrade: one side is upgraded; output_cache is not touched.
KitConverter_upgrade(self, gd, opt) ==
    IF opt < 2 /\ Generic_upgradable(self.l_conv)
    THEN [self EXCEPT !.l_conv = Generic_upgrade(self.l_conv, gd, opt)]
    ELSE [self EXCEPT !.r_conv =
             Generic_upgrade(self.r_conv, gd,
                 IF Generic_upgradable(self.l_conv) THEN opt - 2 ELSE opt)]

\* KitConverter::update_cache.
update_cache(self) ==
    [self EXCEPT !.output_cache = self.l_conv.conv.output \o self.r_conv.conv.output]

\* Convert::upgrade of each implementor.
upgrade(c, gd, opt) ==
    CASE c.kind = "Colony" -> Colony_upgrade(c, gd, opt)
      [] c.kind = "ConverterPrototype" -> c
      [] c.kind = "RelicWorld" -> c
      [] c.kind = "KitConverter" -> KitConverter_upgrade(c, gd, opt)

\* GameData::load_colonies: the colonies read, inserted under their ids in order.
RECURSIVE load_colonies(_, _)
load_colonies(colony, obj) ==
    IF obj = <<>> THEN colony
    ELSE LET c == Head(obj)
         IN  load_colonies([k \in DOMAIN colony \cup {c.id} |->
                               IF k = c.id THEN c ELSE colony[k]],
                           Tail(obj))

(***************************************************************************)
(* The records submitted by the caller, over the bounded identifier sets.  *)
(***************************************************************************)
FactionsDrawn == {"CaylionCore", "CaylionAlt", "EniEtCore", "KjasCore", "FaderanAlt"}

CubeTypesDrawn == {"Ship", "Food", "Ultratech"}

Amounts == 0..MaxBid

CreatePlayerRecords ==
    {[type |-> "CreatePlayer", player |-> p, faction |-> f] :
        p \in PlayerIDs, f \in FactionsDrawn}

ChangePhaseRecords == {[type |-> "ChangePhase", to |-> t] : t \in Phase}

TradeCubesRecords ==
    {[type |-> "TradeCubes", a |-> a, b |-> b, a_cubes |-> ac, b_cubes |-> bc] :
        a \in PlayerIDs, b \in PlayerIDs, ac \in SUBSET CubeIDs, bc \in SUBSET CubeIDs}

TradeColonyRecords ==
    {[type |-> "TradeColony", a |-> a, b |-> b, a_colony |-> ac, b_colony |-> bc] :
        a \in PlayerIDs, b \in PlayerIDs, ac \in SUBSET ColonyIDs, bc \in SUBSET ColonyIDs}

TradeConverterRecords ==
    {[type |-> "TradeConverter", a |-> a, b |-> b, a_converter |-> ac,
      b_converter |-> bc, permanent |-> pm] :
        a \in PlayerIDs, b \in PlayerIDs, ac \in SUBSET ConverterIDs,
        bc \in SUBSET ConverterIDs, pm \in BOOLEAN}

BidRecords ==
    {[type |-> "Bid", player |-> p, for_colony |-> fc, for_colony_kjas |-> fck,
      for_tech |-> ft, for_tech_faderan |-> ftf] :
        p \in PlayerIDs, fc \in Amounts, fck \in OptionOf(Amounts),
        ft \in Amounts, ftf \in OptionOf(Amounts)}

\* Bids whose amounts reach the largest usize.
WideAmounts == {0, 1, usize_MAX}

WideBidRecords ==
    {[type |-> "Bid", player |-> p, for_colony |-> fc, for_colony_kjas |-> fck,
      for_tech |-> ft, for_tech_faderan |-> ftf] :
        p \in PlayerIDs, fc \in WideAmounts, fck \in OptionOf(WideAmounts),
        ft \in WideAmounts, ftf \in OptionOf(WideAmounts)}

TakeColonyRecords ==
    {[type |-> "TakeColony", player |-> p, colony |-> c] :
        p \in PlayerIDs, c \in OptionOf(0..MaxItem + 1)}

TakeResearchRecords ==
    {[type |-> "TakeResearch", player |-> p, tech |-> t] :
        p \in PlayerIDs, t \in OptionOf(0..MaxItem + 1)}

InventTechRecords ==
    {[type |-> "InventTech", player |-> p, tech |-> t, cost |-> c] :
        p \in PlayerIDs, t \in TechIDs, c \in CubeTypesDrawn}

\* The variants below are the ones validate sends to its `_ => todo!()` arm.
TradeConverterPermanentlyRecords ==
    {[type |-> "TradeConverterPermanently", a |-> a, b |-> b, a_converter |-> ac,
      b_converter |-> bc] :
        a \in PlayerIDs, b \in PlayerIDs, ac \in SUBSET ConverterIDs,
        bc \in SUBSET ConverterIDs}

UpgradeConverterRecords ==
    {[type |-> "UpgradeConverter", conv |-> c, opt |-> o] :
        c \in ConverterIDs, o \in 0..MaxItem}

GiveAcknowledgementRecords ==
    {[type |-> "GiveAcknowledgement", player |-> p] : p \in PlayerIDs}

LicenseRecords ==
    {[type |-> "License", player |-> p, tech |-> t] : p \in PlayerIDs, t \in TechIDs}

RetrocontinuityRecords ==
    {[type |-> "Retrocontinuity", converter |-> c] : c \in ConverterIDs}

RecordGroup(id, rec) == [id |-> id, rec |-> rec]

(***************************************************************************)
(* The calls on a GameState.  `call` is the last call made and `ret` what  *)
(* it returned: "none" before any call, the outcome of a validate, "unit"  *)
(* after an apply, "record" after a get_player_cubes.  `before` is the     *)
(* GameState as it was when the call was made, and `log` the groups        *)
(* applied so far.  The caller makes a call at the start or after an       *)
(* apply, and applies a record only when validate has just accepted it; a  *)
(* todo!() panic ends the run.                                             *)
(***************************************************************************)
NoCall == [op |-> "none", rec |-> None]

Validate(r) ==
    /\ ret \in {"none", "unit"}
    /\ call' = [op |-> "validate", rec |-> r]
    /\ ret' = validate(game, r)
    /\ before' = game
    /\ UNCHANGED <<game, log, frac, conv, data, record, ftype, deck>>

Apply ==
    /\ call.op = "validate"
    /\ ret = "true"
    /\ Len(log) < MaxLog
    /\ LET group == RecordGroup(Len(log), <<call.rec>>)
       IN  /\ game' = apply(game, group)
           /\ log' = Append(log, group)
           /\ call' = [op |-> "apply", rec |-> group]
    /\ before' = game
    /\ ret' = "unit"
    /\ UNCHANGED <<frac, conv, data, record, ftype, deck>>

GetPlayerCubes(id) ==
    /\ ret \in {"none", "unit"}
    /\ call' = [op |-> "get_player_cubes", rec |-> id, out |-> get_player_cubes(game, id)]
    /\ ret' = "record"
    /\ before' = game
    /\ UNCHANGED <<game, log, frac, conv, data, record, ftype, deck>>

\* The entities no call touches: a default CubeRecord, a faction, an empty Deck.
NoEntities ==
    /\ record = CubeRecordDefault
    /\ ftype = "CaylionCore"
    /\ deck = <<>>

InitCalls ==
    /\ NoEntities
    /\ call = NoCall
    /\ ret = "none"
    /\ before = game
    /\ log = <<>>
    /\ frac = Fraction(0, 1)
    /\ conv = NoConvertible
    /\ data = GameDataDefault

(***************************************************************************)
(* Spec: the program from GameState::new(data), every record variant.      *)
(***************************************************************************)
TechCost(typ, qty) == [typ |-> typ, qty |-> qty]

SampleTech == [t \in TechIDs |-> <<TechCost("Food", 1), TechCost("Ultratech", 1)>>]

Init ==
    /\ game \in {new(EmptyMap), new(SampleTech)}
    /\ InitCalls

Next ==
    \/ \E r \in CreatePlayerRecords : Validate(r)
    \/ \E r \in ChangePhaseRecords : Validate(r)
    \/ \E r \in TradeCubesRecords : Validate(r)
    \/ \E r \in TradeColonyRecords : Validate(r)
    \/ \E r \in TradeConverterRecords : Validate(r)
    \/ \E r \in BidRecords : Validate(r)
    \/ \E r \in TakeColonyRecords : Validate(r)
    \/ \E r \in TakeResearchRecords : Validate(r)
    \/ \E r \in InventTechRecords : Validate(r)
    \/ \E r \in TradeConverterPermanentlyRecords : Validate(r)
    \/ \E r \in UpgradeConverterRecords : Validate(r)
    \/ \E r \in GiveAcknowledgementRecords : Validate(r)
    \/ \E r \in LicenseRecords : Validate(r)
    \/ \E r \in RetrocontinuityRecords : Validate(r)
    \/ Apply
    \/ \E id \in PlayerIDs : GetPlayerCubes(id)

Spec == Init /\ [][Next]_vars

(***************************************************************************)
(* GameState values for the specifications that check validate as a        *)
(* function of the state: the fields a family of records reads range over  *)
(* bounded sets, the others keep their Default value.                      *)
(***************************************************************************)
\* A state with players, cubes and pending bids, for "the rest of the state".
SampleState ==
    [GameStateDefault EXCEPT
        !.factions = [p \in {0} |-> "KjasCore"],
        !.cubes = [k \in {0} |-> Cube("Ship", None)],
        !.cube_owners = [k \in {0} |-> 0],
        !.player_colony_bid = [p \in {0} |-> <<1, None>>]]

PhaseStates ==
    {[s EXCEPT !.phase = ph, !.confluence = c] :
        s \in {GameStateDefault, SampleState}, ph \in Phase, c \in 1..MaxConfluence}

\* Cubes of one type, owned or not; colonies; converters, tradable or not.
TradeStates ==
    {[GameStateDefault EXCEPT
         !.cubes = [k \in CubeIDs |-> Cube("Food", None)], !.cube_owners = os] :
        os \in PartialMaps(CubeIDs, PlayerIDs)}
    \cup {[GameStateDefault EXCEPT !.colony_owners = os] :
            os \in PartialMaps(ColonyIDs, PlayerIDs)}
    \cup {[GameStateDefault EXCEPT !.converter_owners = os, !.untradable_converters = u] :
            os \in PartialMaps(ConverterIDs, PlayerIDs), u \in SUBSET ConverterIDs}

\* Cubes of several types, each present or not in `cubes`, owned or not.
CubeStates ==
    {[GameStateDefault EXCEPT !.cubes = cs, !.cube_owners = os] :
        cs \in PartialMaps(CubeIDs, {Cube(t, None) : t \in CubeTypesDrawn}),
        os \in PartialMaps(CubeIDs, PlayerIDs)}

\* Player p with faction fo (an Option), owning the cubes of S (the next player owns
\* the others), with or without a pending colony bid cb and tech bid tb; every cube
\* is a Ship, except cube 0 when food0 holds.
BidState(p, fo, S, cb, tb, food0) ==
    [GameStateDefault EXCEPT
        !.factions = IF fo = None THEN EmptyMap ELSE [x \in {p} |-> fo[1]],
        !.cubes = [k \in CubeIDs |->
                      Cube(IF food0 /\ k = 0 THEN "Food" ELSE "Ship", None)],
        !.cube_owners = [k \in CubeIDs |->
                            IF k \in S THEN p ELSE (p + 1) % (MaxPlayer + 1)],
        !.player_colony_bid = IF cb THEN [x \in {p} |-> <<0, None>>] ELSE EmptyMap,
        !.player_tech_bid = IF tb THEN [x \in {p} |-> <<0, None>>] ELSE EmptyMap]

BidFactions == {"KjasCore", "FaderanAlt", "KitCore"}

BidStates ==
    {BidState(p, fo, S, cb, tb, food0) :
        p \in PlayerIDs, fo \in OptionOf(BidFactions), S \in SUBSET CubeIDs,
        cb \in BOOLEAN, tb \in BOOLEAN, food0 \in BOOLEAN}

\* The sequences over S of length at most n.
SeqsUpTo(S, n) == UNION {[1..m -> S] : m \in 0..n}

\* Bid orders and bid tracks of colonies or of techs; a slot of a track is Some(id)
\* or, once its colony or tech has been taken, None.
TakeStates ==
    {[GameStateDefault EXCEPT !.colony_bid_order = o, !.colony_bid_track = t] :
        o \in SeqsUpTo(PlayerIDs, 2), t \in SeqsUpTo(OptionOf(ColonyIDs), MaxItem + 2)}
    \cup {[GameStateDefault EXCEPT !.tech_bid_order = o, !.tech_bid_track = t] :
            o \in SeqsUpTo(PlayerIDs, 2), t \in SeqsUpTo(OptionOf(ColonyIDs), MaxItem + 2)}

\* Alternate cost lists of a technology, over the cube types drawn.
CostLists ==
    {<<TechCost("Food", 1), TechCost("Ultratech", 1)>>,
     <<TechCost("Ship", 2), TechCost("Food", 2)>>,
     <<TechCost("Ultratech", 2)>>}

\* Cube holdings as in CubeStates, tech teams owned or not, technologies known to
\* the game data or not.
InventStates ==
    {[s EXCEPT !.tech_team_owners = os, !.data_tech = dt] :
        s \in CubeStates,
        os \in PartialMaps(TechIDs, PlayerIDs),
        dt \in {EmptyMap} \cup {[t \in TechIDs |-> c] : c \in CostLists}}

(***************************************************************************)
(* SpecIndependence: every record but ChangePhase validated on the states  *)
(* of the other families, each taken in every phase and confluence.        *)
(***************************************************************************)
\* A state on which a record of each validated kind can be accepted: player 0 is
\* Kjas and owns the Food cube 0, every colony, converter and tech team; the other
\* cubes are Ships owned in turn; players 0 and 1 are first in the bid orders.
PopulatedState ==
    [GameStateDefault EXCEPT
        !.data_tech = SampleTech,
        !.factions = [p \in {0} |-> "KjasCore"],
        !.cubes = [k \in CubeIDs |-> Cube(IF k = 0 THEN "Food" ELSE "Ship", None)],
        !.cube_owners = [k \in CubeIDs |-> k % (MaxPlayer + 1)],
        !.colony_owners = [k \in ColonyIDs |-> 0],
        !.converter_owners = [k \in ConverterIDs |-> 0],
        !.tech_team_owners = [t \in TechIDs |-> 0],
        !.colony_bid_order = <<0>>,
        !.colony_bid_track = <<Some(0)>>,
        !.tech_bid_order = <<1>>,
        !.tech_bid_track = <<Some(0)>>]

IndependenceStates ==
    {[s EXCEPT !.phase = ph, !.confluence = c] :
        s \in {GameStateDefault, SampleState, PopulatedState},
        ph \in Phase, c \in 1..MaxConfluence}

InitIndependence ==
    /\ game \in IndependenceStates
    /\ InitCalls

NextIndependence ==
    \/ \E r \in CreatePlayerRecords : Validate(r)
    \/ \E r \in TradeCubesRecords : Validate(r)
    \/ \E r \in TradeColonyRecords : Validate(r)
    \/ \E r \in TradeConverterRecords : Validate(r)
    \/ \E r \in BidRecords : Validate(r)
    \/ \E r \in TakeColonyRecords : Validate(r)
    \/ \E r \in TakeResearchRecords : Validate(r)
    \/ \E r \in InventTechRecords : Validate(r)

SpecIndependence == InitIndependence /\ [][NextIndependence]_vars

(***************************************************************************)
(* SpecPhase: ChangePhase records validated and applied from any phase.    *)
(***************************************************************************)
InitPhase ==
    /\ game \in PhaseStates
    /\ InitCalls

NextPhase ==
    \/ \E r \in ChangePhaseRecords : Validate(r)
    \/ Apply

SpecPhase == InitPhase /\ [][NextPhase]_vars

(***************************************************************************)
(* SpecTrade: the three trade records validated on any ownership.          *)
(***************************************************************************)
InitTrade ==
    /\ game \in TradeStates
    /\ InitCalls

NextTrade ==
    \/ \E r \in TradeCubesRecords : Validate(r)
    \/ \E r \in TradeColonyRecords : Validate(r)
    \/ \E r \in TradeConverterRecords : Validate(r)

SpecTrade == InitTrade /\ [][NextTrade]_vars

(***************************************************************************)
(* SpecCubes: cube trades validated and applied, and get_player_cubes,     *)
(* on any cube holdings.                                                   *)
(***************************************************************************)
InitCubes ==
    /\ game \in CubeStates
    /\ InitCalls

NextCubes ==
    \/ \E r \in TradeCubesRecords : Validate(r)
    \/ Apply
    \/ \E id \in PlayerIDs : GetPlayerCubes(id)

SpecCubes == InitCubes /\ [][NextCubes]_vars

(***************************************************************************)
(* SpecBid: Bid records validated on any faction, ship holding and         *)
(* pending bids of a player.                                               *)
(***************************************************************************)
InitBid ==
    /\ game \in BidStates
    /\ InitCalls

NextBid == \E r \in BidRecords : Validate(r)

SpecBid == InitBid /\ [][NextBid]_vars

(***************************************************************************)
(* SpecBidWide: Bid records of any usize amounts validated on the same     *)
(* states.                                                                 *)
(***************************************************************************)
NextBidWide == \E r \in WideBidRecords : Validate(r)

SpecBidWide == InitBid /\ [][NextBidWide]_vars

(***************************************************************************)
(* SpecTake: TakeColony and TakeResearch records validated on any bid      *)
(* order and bid track.                                                    *)
(***************************************************************************)
InitTake ==
    /\ game \in TakeStates
    /\ InitCalls

NextTake ==
    \/ \E r \in TakeColonyRecords : Validate(r)
    \/ \E r \in TakeResearchRecords : Validate(r)

SpecTake == InitTake /\ [][NextTake]_vars

(***************************************************************************)
(* SpecInvent: InventTech records validated on any cube holdings, tech     *)
(* team ownership and technology costs.                                    *)
(***************************************************************************)
InitInvent ==
    /\ game \in InventStates
    /\ InitCalls

NextInvent == \E r \in InventTechRecords : Validate(r)

SpecInvent == InitInvent /\ [][NextInvent]_vars

(***************************************************************************)
(* SpecFraction: a Fraction built by Fraction::new and carried through     *)
(* the arithmetic operators.  `frac` is the current value, `ret` is "ok"   *)
(* or "panic" (a panic ends the run), call.legal tells whether every call  *)
(* since the last `new` had a non-zero denominator or divisor and was one  *)
(* of new, add, sub, neg, mul, div and their isize variants.  Values whose *)
(* numerator or denominator exceeds MaxFrac in magnitude are not followed. *)
(***************************************************************************)
Ints(m) == -m..m

\* The right-hand operands: the values Fraction::new returns for a non-zero
\* denominator.
FractionArgs ==
    {Fraction_new(n, d)[1] : n \in Ints(MaxArg), d \in Ints(MaxArg) \ {0}}

FractionReturn(op, args, legal, res) ==
    /\ ret # "panic"
    /\ call' = [op |-> op, rec |-> args, legal |-> legal]
    /\ ret' = IF res = Panic THEN "panic" ELSE "ok"
    /\ frac' = IF res = Panic THEN frac ELSE res[1]
    /\ abs(frac'.n) <= MaxFrac
    /\ abs(frac'.d) <= MaxFrac
    /\ UNCHANGED <<game, before, log, conv, data, record, ftype, deck>>

FractionNew(n, d) == FractionReturn("new", <<n, d>>, d # 0, Fraction_new(n, d))

FractionReciprocal ==
    FractionReturn("reciprocal", <<>>, FALSE, Ok(Fraction_reciprocal(frac)))

FractionAdd(rhs) ==
    FractionReturn("add", <<rhs>>, call.legal, Fraction_add(frac, rhs))

FractionAddIsize(k) ==
    FractionReturn("add_isize", <<k>>, call.legal, Fraction_add_isize(frac, k))

FractionNeg == FractionReturn("neg", <<>>, call.legal, Ok(Fraction_neg(frac)))

FractionSub(rhs) ==
    FractionReturn("sub", <<rhs>>, call.legal, Fraction_sub(frac, rhs))

FractionSubIsize(k) ==
    FractionReturn("sub_isize", <<k>>, call.legal, Fraction_sub_isize(frac, k))

FractionMul(rhs) ==
    FractionReturn("mul", <<rhs>>, call.legal, Fraction_mul(frac, rhs))

FractionMulIsize(k) ==
    FractionReturn("mul_isize", <<k>>, call.legal, Fraction_mul_isize(frac, k))

FractionDiv(rhs) ==
    FractionReturn("div", <<rhs>>, call.legal /\ rhs.n # 0, Fraction_div(frac, rhs))

FractionDivIsize(k) ==
    FractionReturn("div_isize", <<k>>, call.legal /\ k # 0,
                   Ok(Fraction_div_isize(frac, k)))

FractionCmp(rhs) ==
    /\ ret # "panic"
    /\ call' = [op |-> "cmp", rec |-> <<rhs>>, legal |-> call.legal,
                out |-> Fraction_cmp(frac, rhs)]
    /\ ret' = "ok"
    /\ UNCHANGED <<game, before, log, frac, conv, data, record, ftype, deck>>

InitFraction ==
    /\ NoEntities
    /\ game = GameStateDefault
    /\ call = [op |-> "none", rec |-> <<>>, legal |-> TRUE]
    /\ ret = "none"
    /\ before = game
    /\ log = <<>>
    /\ frac = Fraction(0, 1)
    /\ conv = NoConvertible
    /\ data = GameDataDefault

NextFraction ==
    \/ \E n \in Ints(MaxArg), d \in Ints(MaxArg) : FractionNew(n, d)
    \/ FractionReciprocal
    \/ \E rhs \in FractionArgs : FractionAdd(rhs)
    \/ \E k \in Ints(MaxArg) : FractionAddIsize(k)
    \/ FractionNeg
    \/ \E rhs \in FractionArgs : FractionSub(rhs)
    \/ \E k \in Ints(MaxArg) : FractionSubIsize(k)
    \/ \E rhs \in FractionArgs : FractionMul(rhs)
    \/ \E k \in Ints(MaxArg) : FractionMulIsize(k)
    \/ \E rhs \in FractionArgs : FractionDiv(rhs)
    \/ \E k \in Ints(MaxArg) : FractionDivIsize(k)
    \/ \E rhs \in FractionArgs : FractionCmp(rhs)

SpecFraction == InitFraction /\ [][NextFraction]_vars

(***************************************************************************)
(* SpecValue: the four valuations of a Convert object, for any interest    *)
(* rate and number of turns left.                                          *)
(***************************************************************************)
ItemLists ==
    {<<>>,
     <<Cubes("Food", 1)>>,
     <<Cubes("Ship", 2)>>,
     <<DonationCubes("VictoryPoint", 1)>>,
     <<Cubes("Power", 1), DonationCubes("Ship", 1)>>,
     <<ItemColony("Any"), Cubes("Ultratech", 1)>>}

Converters == {Converter("White", i, o) : i \in ItemLists, o \in ItemLists}

ValuePrototypes == {ConverterPrototype(1, "Prototype", cv) : cv \in Converters}

ValueColonies ==
    {Colony("Colony", 0, "Desert", Converter("White", <<>>, o), None) :
        o \in ItemLists}

RelicWorlds == {RelicWorld(w) : w \in RelicWorldNames}

\* The upgrade options of one side of a paired converter: none, or two options
\* whose costs are the cards first and first + 1 and whose upgraded forms take
\* `typ` cubes and give first and first + 1 cubes back.
UpgradeCostLists(first, typ) ==
    {[costs |-> <<>>, convs |-> <<>>],
     [costs |-> <<UpgradeConverterCard(first), UpgradeConverterCard(first + 1)>>,
      convs |-> <<Converter("White", <<Cubes(typ, 2)>>, <<Cubes(typ, first)>>),
                  Converter("White", <<Cubes(typ, 3)>>, <<Cubes(typ, first + 1)>>)>>]}

KitConverters ==
    {KitConverter(
        GenericStartingConverter(
            Converter("White", <<Cubes("Food", 1)>>, <<Cubes("Ship", 1)>>),
            l.costs, l.convs),
        GenericStartingConverter(
            Converter("White", <<Cubes("Power", 1)>>, <<Cubes("VictoryPoint", 1)>>),
            r.costs, r.convs)) :
        l \in UpgradeCostLists(1, "Food"), r \in UpgradeCostLists(3, "Power")}

\* The interest rates: positive fractions.
Rates == {Fraction_new(n, d)[1] : n \in 1..MaxRate, d \in 1..MaxRate}

Query(op, args, out) ==
    /\ call' = [op |-> op, rec |-> args, out |-> out]
    /\ ret' = "value"
    /\ UNCHANGED <<game, before, log, frac, conv, data, record, ftype, deck>>

InputValue == Query("input_value", <<>>, input_value(conv))

OutputValue == Query("output_value", <<>>, output_value(conv))

InputValueAdjusted(rate, turns_left) ==
    Query("input_value_adjusted", <<rate, turns_left>>,
          input_value_adjusted(conv, rate, turns_left))

OutputValueAdjusted(rate, turns_left) ==
    Query("output_value_adjusted", <<rate, turns_left>>,
          output_value_adjusted(conv, rate, turns_left))

InitConvert ==
    /\ NoEntities
    /\ game = GameStateDefault
    /\ call = NoCall
    /\ ret = "none"
    /\ before = game
    /\ log = <<>>
    /\ frac = Fraction(0, 1)

InitValue ==
    /\ InitConvert
    /\ data = GameDataDefault
    /\ \/ conv \in ValuePrototypes
       \/ conv \in ValueColonies
       \/ conv \in RelicWorlds
       \/ conv \in KitConverters

NextValue ==
    \/ InputValue
    \/ OutputValue
    \/ \E rate \in Rates, t \in 1..MaxTurns : InputValueAdjusted(rate, t)
    \/ \E rate \in Rates, t \in 1..MaxTurns : OutputValueAdjusted(rate, t)

SpecValue == InitValue /\ [][NextValue]_vars

(***************************************************************************)
(* SpecUpgrade: the upgrade queries of a Convert object, and upgrade       *)
(* against a GameData whose colonies were loaded by load_colonies.  `log`  *)
(* keeps, for each upgrade call, the object before the call and the        *)
(* option passed.                                                          *)
(***************************************************************************)
UpgradedColonyIDs == {k + 100 : k \in ColonyIDs}

\* The colonies under test: a base or an upgraded id, with or without a cost.
BaseColonies ==
    {Colony("Colony", id, "Desert",
            Converter("White", <<>>, <<Cubes("Food", 1)>>), uc) :
        id \in ColonyIDs \cup UpgradedColonyIDs,
        uc \in OptionOf({<<"Power", 2>>})}

\* The colonies of colony.json.
StoreColonies ==
    {Colony("Upgraded Colony", id, typ,
            Converter("White", <<>>, <<Cubes("Food", 2)>>), uc) :
        id \in ColonyIDs \cup UpgradedColonyIDs,
        typ \in {"Desert", "Ice"},
        uc \in OptionOf({<<"Power", 3>>})}

ColonyStores == {load_colonies(EmptyMap, obj) : obj \in SeqsUpTo(StoreColonies, 2)}

UpgradePrototypes ==
    {ConverterPrototype(id, "Prototype",
                        Converter("White", <<Cubes("Food", 1)>>, <<Cubes("Power", 1)>>)) :
        id \in 0..MaxTechID}

Upgradable == Query("upgradable", <<>>, upgradable(conv))

UpgradeOpts == Query("upgrade_opts", <<>>, upgrade_opts(conv))

UpgradeCost(alt) == Query("upgrade_cost", <<alt>>, upgrade_cost(conv, alt))

Upgrade(opt) ==
    /\ Len(log) < MaxLog
    /\ conv' = upgrade(conv, data, opt)
    /\ log' = Append(log, [pre |-> conv, opt |-> opt])
    /\ call' = [op |-> "upgrade", rec |-> <<opt>>]
    /\ ret' = "unit"
    /\ UNCHANGED <<game, before, frac, data, record, ftype, deck>>

InitUpgrade ==
    /\ InitConvert
    /\ \/ conv \in BaseColonies /\ \E st \in ColonyStores : data = [colony |-> st]
       \/ conv \in UpgradePrototypes /\ data = GameDataDefault
       \/ conv \in RelicWorlds /\ data = GameDataDefault
       \/ conv \in KitConverters /\ data = GameDataDefault

NextUpgrade ==
    \/ Upgradable
    \/ UpgradeOpts
    \/ \E alt \in 0..MaxAlt : UpgradeCost(alt)
    \/ \E opt \in 0..1 : Upgrade(opt)

SpecUpgrade == InitUpgrade /\ [][NextUpgrade]_vars

(***************************************************************************)
(* SpecKit: entity/faction/alt_kit.rs, the queries and upgrade of a        *)
(* KitConverter, with every option index up to MaxAlt.                     *)
(***************************************************************************)
InitKit ==
    /\ InitConvert
    /\ conv \in KitConverters
    /\ data = GameDataDefault

NextKit ==
    \/ Upgradable
    \/ UpgradeOpts
    \/ \E alt \in 0..MaxAlt : UpgradeCost(alt)
    \/ \E opt \in 0..MaxAlt : Upgrade(opt)

SpecKit == InitKit /\ [][NextKit]_vars

(***************************************************************************)
(* SpecSplit: entity/cube.rs, CubeRecord::split, gt_zero and Neg over      *)
(* records whose slots are isize values.  isize is modelled at UsizeBits   *)
(* bits.  Negating the least isize overflows: a build with overflow checks *)
(* panics, a build without them wraps, so every call takes the build's     *)
(* `overflow_checks` as an input.                                          *)
(***************************************************************************)
isize_MIN == -(2 ^ (UsizeBits - 1))

isize_MAX == 2 ^ (UsizeBits - 1) - 1

\* `-x` on an isize in a build without overflow checks.
wrapping_neg(x) == IF x = isize_MIN THEN isize_MIN ELSE -x

\* Neg for CubeRecord.
CubeRecord_neg(self, overflow_checks) ==
    IF overflow_checks /\ \E slot \in DOMAIN self : self[slot] = isize_MIN
    THEN Panic
    ELSE Ok([slot \in DOMAIN self |-> wrapping_neg(self[slot])])

gt_zero(self) == [slot \in DOMAIN self |-> max(self[slot], 0)]

split(self, overflow_checks) ==
    LET negated == CubeRecord_neg(self, overflow_checks)
    IN  IF negated = Panic THEN Panic
        ELSE Ok(<<gt_zero(self), gt_zero(negated[1])>>)

\* The slot values drawn: the ends of isize and the values around zero.
SlotValues == {isize_MIN, -1, 0, 1, isize_MAX}

CubeRecords ==
    {[CubeRecordDefault EXCEPT !.food = a, !.power = b, !.points = c] :
        a \in SlotValues, b \in SlotValues, c \in SlotValues}

CubeRecordReturn(op, res) ==
    /\ ret # "panic"
    /\ call' = [op |-> op, rec |-> <<>>, out |-> res]
    /\ ret' = IF res = Panic THEN "panic" ELSE "value"
    /\ UNCHANGED <<game, before, log, frac, conv, data, ftype, deck>>

Split(overflow_checks) ==
    /\ CubeRecordReturn("split", split(record, overflow_checks))
    /\ UNCHANGED record

Negate(overflow_checks) ==
    /\ CubeRecordReturn("neg", CubeRecord_neg(record, overflow_checks))
    /\ record' = IF CubeRecord_neg(record, overflow_checks) = Panic THEN record
                 ELSE CubeRecord_neg(record, overflow_checks)[1]

InitSplit ==
    /\ game = GameStateDefault
    /\ call = NoCall
    /\ ret = "none"
    /\ before = game
    /\ log = <<>>
    /\ frac = Fraction(0, 1)
    /\ conv = NoConvertible
    /\ data = GameDataDefault
    /\ ftype = "CaylionCore"
    /\ deck = <<>>
    /\ record \in CubeRecords

NextSplit ==
    \/ \E overflow_checks \in BOOLEAN : Split(overflow_checks)
    \/ \E overflow_checks \in BOOLEAN : Negate(overflow_checks)

SpecSplit == InitSplit /\ [][NextSplit]_vars

(***************************************************************************)
(* SpecFaction: entity/faction/mod.rs, FactionType::bifurcate, short_name, *)
(* core and bifurcation.  `ftype` is the faction at hand, replaced by the  *)
(* result of each bifurcate call; `log` keeps the faction each bifurcate   *)
(* was called on.                                                          *)
(***************************************************************************)
FactionQuery(op, out) ==
    /\ call' = [op |-> op, rec |-> <<>>, out |-> out]
    /\ ret' = "value"
    /\ UNCHANGED <<game, before, frac, conv, data, record, deck>>

Bifurcate ==
    /\ Len(log) < MaxLog
    /\ FactionQuery("bifurcate", bifurcate(ftype))
    /\ ftype' = bifurcate(ftype)
    /\ log' = Append(log, ftype)

ShortName == FactionQuery("short_name", short_name(ftype)) /\ UNCHANGED <<ftype, log>>

Core == FactionQuery("core", core) /\ UNCHANGED <<ftype, log>>

Bifurcation == FactionQuery("bifurcation", bifurcation) /\ UNCHANGED <<ftype, log>>

InitFaction ==
    /\ game = GameStateDefault
    /\ call = NoCall
    /\ ret = "none"
    /\ before = game
    /\ log = <<>>
    /\ frac = Fraction(0, 1)
    /\ conv = NoConvertible
    /\ data = GameDataDefault
    /\ record = CubeRecordDefault
    /\ deck = <<>>
    /\ ftype \in FactionType

NextFaction ==
    \/ Bifurcate
    \/ ShortName
    \/ Core
    \/ Bifurcation

SpecFaction == InitFaction /\ [][NextFaction]_vars

(***************************************************************************)
(* SpecDeck: lib.rs, Deck<T>.  `deck` is the VecDeque `items`, front       *)
(* first.  A predicate is the set of the items it accepts.  `before` is    *)
(* the deck before the last call; `log` keeps, for each call that takes    *)
(* &mut self, the deck before it, the item added and the item returned.    *)
(***************************************************************************)
Cards == 1..MaxCard

\* The `while !pred(&item)` loop of draw_next_matches, entered with `item` popped
\* and `count` pushes done.
RECURSIVE draw_loop(_, _, _, _)
draw_loop(items, item, count, pred) ==
    IF item \in pred
    THEN [items |-> items, out |-> Some(item)]
    ELSE LET pushed == Append(items, item)
         IN  IF count + 1 > Len(pushed)
             THEN [items |-> pushed, out |-> None]
             ELSE draw_loop(Tail(pushed), Head(pushed), count + 1, pred)

\* draw_next_matches that takes the top item whatever the predicate says.
draw_next_matches_Top(items, pred) ==
    IF Len(items) = 0
    THEN [items |-> items, out |-> None]
    ELSE [items |-> Tail(items), out |-> Some(Head(items))]

draw_next_matches(items, pred) ==
    IF Len(items) = 0
    THEN [items |-> items, out |-> None]
    ELSE draw_loop(Tail(items), Head(items), 0, pred)

\* draw_next: draw_next_matches(|_| true).
draw_next(items) == draw_next_matches(items, Cards)

\* add_to_bottom that replaces the bottom item.
add_to_bottom_Replaces(items, item) ==
    IF items = <<>> THEN <<item>> ELSE [items EXCEPT ![Len(items)] = item]

add_to_bottom(items, item) == Append(items, item)

add_to_top(items, item) == <<item>> \o items

peek(items) == VecGet(items, 0)

len(items) == Len(items)

DeckCall(op, arg, res) ==
    /\ Len(log) < MaxLog
    /\ call' = [op |-> op, rec |-> arg, out |-> res.out]
    /\ ret' = "value"
    /\ before' = deck
    /\ deck' = res.items
    /\ log' = Append(log, [pre |-> deck, added |-> IF op \in {"add_to_top", "add_to_bottom"}
                                                  THEN arg ELSE <<>>,
                           returned |-> res.out])
    /\ UNCHANGED <<game, frac, conv, data, record, ftype>>

DeckQuery(op, out) ==
    /\ call' = [op |-> op, rec |-> <<>>, out |-> out]
    /\ ret' = "value"
    /\ before' = deck
    /\ UNCHANGED <<game, log, frac, conv, data, record, ftype, deck>>

DrawNext == DeckCall("draw_next", <<>>, draw_next(deck))

DrawNextMatches(pred) ==
    DeckCall("draw_next_matches", <<pred>>, draw_next_matches(deck, pred))

AddToBottom(item) ==
    /\ Len(deck) < MaxDeck
    /\ DeckCall("add_to_bottom", <<item>>,
                [items |-> add_to_bottom(deck, item), out |-> None])

AddToTop(item) ==
    /\ Len(deck) < MaxDeck
    /\ DeckCall("add_to_top", <<item>>, [items |-> add_to_top(deck, item), out |-> None])

DeckPeek == DeckQuery("peek", peek(deck))

DeckLen == DeckQuery("len", len(deck))

\* Deck::new(items).
InitDeck ==
    /\ game = GameStateDefault
    /\ call = NoCall
    /\ ret = "none"
    /\ log = <<>>
    /\ frac = Fraction(0, 1)
    /\ conv = NoConvertible
    /\ data = GameDataDefault
    /\ record = CubeRecordDefault
    /\ ftype = "CaylionCore"
    /\ deck \in SeqsUpTo(Cards, MaxDeck)
    /\ before = deck

NextDeck ==
    \/ DrawNext
    \/ \E pred \in SUBSET Cards : DrawNextMatches(pred)
    \/ \E item \in Cards : AddToBottom(item)
    \/ \E item \in Cards : AddToTop(item)
    \/ DeckPeek
    \/ DeckLen

SpecDeck == InitDeck /\ [][NextDeck]_vars

(***************************************************************************)
(* Claims.                                                                 *)
(***************************************************************************)

\* C1: validate(ChangePhase{to}) on a state whose phase is `from` returns true exactly
\* when (from, to) is one of the eight listed pairs and false for the 56 other pairs,
\* whatever the confluence and the rest of the state are.
C1_PhaseTable ==
    LET table == {<<"Init", "Trade">>, <<"Trade", "Economy">>,
                  <<"Economy", "ColonyBid">>, <<"Economy", "Resolution">>,
                  <<"ColonyBid", "TechBid">>, <<"TechBid", "ZethSteal">>,
                  <<"ZethSteal", "Trade">>, <<"Resolution", "Finish">>}
    IN  (call.op = "validate" /\ call.rec.type = "ChangePhase") =>
            /\ ret \in {"true", "false"}
            /\ (ret = "true") <=> (<<game.phase, call.rec.to>> \in table)
            /\ Cardinality((Phase \X Phase) \ table) = 56

\* C1 witness: ZethSteal -> Trade is accepted in a later confluence of a populated state.
C1_Witness ==
    /\ call.op = "validate"
    /\ ret = "true"
    /\ game.phase = "ZethSteal"
    /\ call.rec.to = "Trade"
    /\ game.confluence = MaxConfluence
    /\ game.factions # EmptyMap

\* C2: in a run from phase Init that validates and then applies ChangePhase records,
\* the phase after each accepted ChangePhase{to} is `to`, consecutive phases form an
\* edge of the transition table, Init is never entered again, and in phase Finish no
\* ChangePhase is accepted.
C2_PhaseRun ==
    LET table == {<<"Init", "Trade">>, <<"Trade", "Economy">>,
                  <<"Economy", "ColonyBid">>, <<"Economy", "Resolution">>,
                  <<"ColonyBid", "TechBid">>, <<"TechBid", "ZethSteal">>,
                  <<"ZethSteal", "Trade">>, <<"Resolution", "Finish">>}
    IN  /\ (call.op = "apply" /\ call.rec.rec[1].type = "ChangePhase") =>
              /\ game.phase = call.rec.rec[1].to
              /\ <<before.phase, game.phase>> \in table
              /\ game.phase # "Init"
        /\ (call.op = "validate" /\ call.rec.type = "ChangePhase"
              /\ game.phase = "Finish") => ret = "false"

\* C3: validate of TradeCubes, TradeColony or TradeConverter{a, b, ...} returns true
\* only if a # b, every unit offered by a is owned by a, every unit offered by b is
\* owned by b, and no offered converter is in untradable_converters.
C3_TradeOwnership ==
    (call.op = "validate" /\ ret = "true") =>
        LET r == call.rec
            owned(m, p) == {k \in DOMAIN m : m[k] = p}
        IN  /\ r.a # r.b
            /\ r.type = "TradeCubes" =>
                  /\ r.a_cubes \subseteq owned(game.cube_owners, r.a)
                  /\ r.b_cubes \subseteq owned(game.cube_owners, r.b)
            /\ r.type = "TradeColony" =>
                  /\ r.a_colony \subseteq owned(game.colony_owners, r.a)
                  /\ r.b_colony \subseteq owned(game.colony_owners, r.b)
            /\ r.type = "TradeConverter" =>
                  /\ r.a_converter \subseteq owned(game.converter_owners, r.a)
                  /\ r.b_converter \subseteq owned(game.converter_owners, r.b)
                  /\ (r.a_converter \cup r.b_converter) \cap game.untradable_converters = {}

\* C3 witness: a cube trade in which both parties offer something is accepted.
C3_Witness ==
    /\ call.op = "validate"
    /\ ret = "true"
    /\ call.rec.type = "TradeCubes"
    /\ call.rec.a_cubes # {}
    /\ call.rec.b_cubes # {}

\* C4: validate(CreatePlayer{player, faction}) returns false exactly when the faction
\* map contains that player or some player whose faction is `faction` or its
\* bifurcation; so on a fresh state CreatePlayer{0, CaylionCore} validates true, and
\* after it has been applied CreatePlayer{1, CaylionCore} and {1, CaylionAlt} validate
\* false while CreatePlayer{1, EniEtCore} validates true.
C4_CreatePlayer ==
    (call.op = "validate" /\ call.rec.type = "CreatePlayer") =>
        LET r == call.rec
            CP(p, f) == [type |-> "CreatePlayer", player |-> p, faction |-> f]
            taken == \/ r.player \in DOMAIN game.factions
                     \/ \E q \in DOMAIN game.factions :
                           game.factions[q] \in {r.faction, bifurcate(r.faction)}
        IN  /\ (ret = "false") <=> taken
            /\ (log = <<>> /\ r = CP(0, "CaylionCore")) => ret = "true"
            /\ (log = <<RecordGroup(0, <<CP(0, "CaylionCore")>>)>>) =>
                  /\ r = CP(1, "CaylionCore") => ret = "false"
                  /\ r = CP(1, "CaylionAlt") => ret = "false"
                  /\ r = CP(1, "EniEtCore") => ret = "true"

\* C5: after a RecordGroup holding a validated TradeCubes{a, b, a_cubes, b_cubes} is
\* applied, every cube of a_cubes is owned by b and every cube of b_cubes by a, every
\* cube still has exactly one owner, and the owner of every other cube is unchanged.
C5_TradeCubesApplied ==
    (call.op = "apply" /\ call.rec.rec[1].type = "TradeCubes") =>
        LET r == call.rec.rec[1]
        IN  /\ \A c \in r.a_cubes : Get(game.cube_owners, c) = Some(r.b)
            /\ \A c \in r.b_cubes : Get(game.cube_owners, c) = Some(r.a)
            /\ DOMAIN game.cube_owners = DOMAIN before.cube_owners
            /\ \A c \in CubeIDs \ (r.a_cubes \cup r.b_cubes) :
                  Get(game.cube_owners, c) = Get(before.cube_owners, c)

\* C7: for every variant of RecordType and every game state, validate returns true or
\* false, never aborts, and leaves the state as it was.
C7_ValidateTotal ==
    (call.op = "validate") =>
        /\ ret \in {"true", "false"}
        /\ game = before

\* C8: for every player p and every concrete cube type t,
\* get_player_cubes(p).count_type(t) is the number of cubes of type t owned by p.
C8_CubeRecordCounts ==
    (call.op = "get_player_cubes") =>
        \A t \in {u \in CubeType : ~is_virtual(u)} :
            count_type(call.out, t) =
                Cardinality({k \in DOMAIN game.cube_owners :
                                /\ game.cube_owners[k] = call.rec
                                /\ k \in DOMAIN game.cubes
                                /\ game.cubes[k].typ = t})

\* C9: validate(Bid{player, ...}) returns false whenever the player has an entry in
\* player_colony_bid or player_tech_bid; so in a sequence of records each validated and
\* then applied, a player places at most one Bid in a bidding round.
C9_OneBidPerRound ==
    /\ (call.op = "validate" /\ call.rec.type = "Bid"
          /\ (\/ call.rec.player \in DOMAIN game.player_colony_bid
              \/ call.rec.player \in DOMAIN game.player_tech_bid)) => ret = "false"
    /\ (\A i \in DOMAIN log : log[i].rec[1].type # "ChangePhase") =>
          \A p \in PlayerIDs :
              Cardinality({i \in DOMAIN log :
                              /\ log[i].rec[1].type = "Bid"
                              /\ log[i].rec[1].player = p}) <= 1

\* C10: a Bid with for_colony_kjas = Some(b) validates only if the player's faction is
\* KjasCore and |b - for_colony| <= 1, and a Bid with for_tech_faderan = Some(b) only
\* if the faction is FaderanAlt and |b - for_tech| <= 1; a player with another faction,
\* or with none recorded, cannot place a split bid.
C10_SplitBid ==
    (call.op = "validate" /\ call.rec.type = "Bid" /\ ret = "true") =>
        LET r == call.rec
            has(f) == r.player \in DOMAIN game.factions /\ game.factions[r.player] = f
            near(x, y) == x - y \in {-1, 0, 1}
        IN  /\ r.for_colony_kjas # None =>
                  has("KjasCore") /\ near(r.for_colony_kjas[1], r.for_colony)
            /\ r.for_tech_faderan # None =>
                  has("FaderanAlt") /\ near(r.for_tech_faderan[1], r.for_tech)

\* C10 witness: a Kjas player's colony bid split into unequal halves is accepted.
C10_Witness ==
    /\ call.op = "validate"
    /\ call.rec.type = "Bid"
    /\ ret = "true"
    /\ call.rec.for_colony_kjas # None
    /\ call.rec.for_colony_kjas[1] # call.rec.for_colony

\* C11: validate(Bid) returns false whenever for_colony + for_tech + the two split
\* halves (an absent half counted as 0) exceeds the number of cubes of type Ship the
\* bidding player owns; the ship count used is exactly that number, so a bid without
\* split halves by a player without pending bids is accepted exactly when its total
\* does not exceed it.
C11_BidShipTotal ==
    (call.op = "validate" /\ call.rec.type = "Bid") =>
        LET r == call.rec
            total == r.for_colony + unwrap_or(r.for_colony_kjas, 0)
                       + r.for_tech + unwrap_or(r.for_tech_faderan, 0)
            owned_ships == Cardinality({k \in DOMAIN game.cube_owners :
                                          /\ game.cube_owners[k] = r.player
                                          /\ k \in DOMAIN game.cubes
                                          /\ game.cubes[k].typ = "Ship"})
        IN  /\ total > owned_ships => ret = "false"
            /\ (/\ r.for_colony_kjas = None
                /\ r.for_tech_faderan = None
                /\ r.player \notin DOMAIN game.player_colony_bid
                /\ r.player \notin DOMAIN game.player_tech_bid) =>
                  ((ret = "true") <=> (total <= owned_ships))

\* C12: validate(TakeColony{player, colony}) returns true exactly when player is the
\* first entry of colony_bid_order and either colony is None or colony is Some(i) and
\* slot i of colony_bid_track exists and holds a colony (is not an emptied slot); the
\* same holds for TakeResearch with tech_bid_order and tech_bid_track.
C12_TakeFromTrack ==
    LET legal(order, track, player, choice) ==
            /\ order # <<>>
            /\ order[1] = player
            /\ \/ choice = None
               \/ /\ choice[1] + 1 \in DOMAIN track
                  /\ track[choice[1] + 1] # None
    IN  /\ (call.op = "validate" /\ call.rec.type = "TakeColony") =>
              ((ret = "true") <=> legal(game.colony_bid_order, game.colony_bid_track,
                                       call.rec.player, call.rec.colony))
        /\ (call.op = "validate" /\ call.rec.type = "TakeResearch") =>
              ((ret = "true") <=> legal(game.tech_bid_order, game.tech_bid_track,
                                       call.rec.player, call.rec.tech))

\* C13: validate(InventTech{player, tech, cost}) returns true exactly when
\* tech_team_owners maps tech to player and the technology's list of alternate costs
\* has an entry of cube type `cost` whose quantity is at most the number of cubes of
\* that type the player owns, for every cube type that can be a cost, Ultratech
\* included.
C13_InventTech ==
    (call.op = "validate" /\ call.rec.type = "InventTech") =>
        LET r == call.rec
            owned(t) == Cardinality({k \in DOMAIN game.cube_owners :
                                       /\ game.cube_owners[k] = r.player
                                       /\ k \in DOMAIN game.cubes
                                       /\ game.cubes[k].typ = t})
            affordable ==
                /\ r.tech \in DOMAIN game.data_tech
                /\ \E i \in DOMAIN game.data_tech[r.tech] :
                      /\ game.data_tech[r.tech][i].typ = r.cost
                      /\ game.data_tech[r.tech][i].qty <= owned(r.cost)
        IN  (ret = "true") <=>
                /\ r.tech \in DOMAIN game.tech_team_owners
                /\ game.tech_team_owners[r.tech] = r.player
                /\ affordable

\* C14: every Fraction produced by Fraction::new(n, d) with d # 0 and by any chain of
\* add, subtract, negate, multiply, divide (by a non-zero value) and their isize
\* variants has a numerator and denominator with no common factor greater than 1 and
\* a strictly positive denominator.
C14_LowestTerms ==
    (call.op # "none" /\ call.legal /\ ret = "ok") =>
        /\ frac.d > 0
        /\ \A k \in 2..MaxFrac : ~(frac.n % k = 0 /\ frac.d % k = 0)

\* C15: for all n, d with d # 0 and every non-zero k, positive or negative,
\* Fraction::new(n, d) equals Fraction::new(k*n, k*d), and the numerator and
\* denominator stored by Fraction::new(n, d) have no common factor greater than 1.
C15_NewScaleInvariant ==
    (call.op = "new" /\ call.rec[2] # 0) =>
        /\ ret = "ok"
        /\ \A k \in Ints(MaxScale) \ {0} :
              Fraction_new(k * call.rec[1], k * call.rec[2]) = Ok(frac)
        /\ \A k \in 2..MaxArg : ~(abs(frac.n) % k = 0 /\ abs(frac.d) % k = 0)

\* C15 witness: a fraction of mixed signs that is not in lowest terms was built.
C15_Witness ==
    /\ call.op = "new"
    /\ ret = "ok"
    /\ call.rec[1] < 0
    /\ call.rec[2] > 1
    /\ gcd(call.rec[1], call.rec[2]) \notin {1, -1}

\* C16: dividing a Fraction by a zero-valued Fraction or by the integer 0, and
\* building a Fraction with denominator 0, fail with a division-by-zero error; no
\* operation returns a Fraction whose denominator is 0.
C16_DivisionByZeroFails ==
    /\ (call.op = "new" /\ call.rec[2] = 0) => ret = "panic"
    /\ (call.op = "div" /\ call.rec[1].n = 0) => ret = "panic"
    /\ (call.op = "div_isize" /\ call.rec[1] = 0) => ret = "panic"
    /\ (call.op # "none" /\ ret = "ok") => frac.d # 0

\* C17: for every Convert object, whatever cube types its inputs and outputs hold
\* (Ship and VictoryPoint included), and for every rate,
\* input_value_adjusted(rate, 1) = input_value() and
\* output_value_adjusted(rate, 1) = output_value().
C17_LastTurnUndiscounted ==
    /\ (call.op = "input_value_adjusted" /\ call.rec[2] = 1) =>
          call.out = input_value(conv)
    /\ (call.op = "output_value_adjusted" /\ call.rec[2] = 1) =>
          call.out = output_value(conv)

\* C18: in input_value_adjusted(rate, turns_left) and
\* output_value_adjusted(rate, turns_left), for every rate and turns_left >= 1, an
\* item of qty Ship cubes contributes exactly qty and an item of qty VictoryPoint
\* cubes exactly 6 * qty, whatever rate and turns_left are, and an item of any other
\* cube type contributes its raw value times rate ^ (turns_left - 1); the result is
\* the sum of the contributions.  (The sum is compared after multiplying both sides
\* by 2 * rate.d ^ (turns_left - 1), which makes every contribution an integer.)
C18_Contributions ==
    (call.op \in {"input_value_adjusted", "output_value_adjusted"}) =>
        LET items == IF call.op = "input_value_adjusted" THEN input(conv)
                     ELSE output(conv)
            rn == call.rec[1].n ^ (call.rec[2] - 1)
            rd == call.rec[1].d ^ (call.rec[2] - 1)
            raw2(t) == (2 * CubeType_value(t).n) \div CubeType_value(t).d
            contribution(i) ==
                CASE ~is_cubes(i) -> 0
                  [] is_cubes(i) /\ i.typ = "Ship" -> 2 * rd * i.qty
                  [] is_cubes(i) /\ i.typ = "VictoryPoint" -> 2 * rd * 6 * i.qty
                  [] OTHER -> raw2(i.typ) * i.qty * rn
            total[k \in 0..Len(items)] ==
                IF k = 0 THEN 0 ELSE total[k - 1] + contribution(items[k])
        IN  call.out.n * 2 * rd = total[Len(items)] * call.out.d

\* C19: for every Convert object (Colony, ConverterPrototype with any TechID,
\* RelicWorld, KitConverter), upgrade_opts() is Some(n) exactly when upgradable() is
\* true, and upgrade_cost(i) is Some exactly when upgradable() is true and i < n.
C19_UpgradeOptions ==
    /\ (call.op = "upgrade_opts") => ((call.out # None) <=> upgradable(conv))
    /\ (call.op = "upgrade_cost") =>
          ((call.out # None) <=>
              /\ upgradable(conv)
              /\ upgrade_opts(conv) # None
              /\ call.rec[1] < unwrap_or(upgrade_opts(conv), 0))

\* C20: for a Colony with identifier k < 100 and an upgrade cost, when the store
\* holds a colony with identifier k + 100, upgrade(store, 0) makes name, id, typ, conv
\* and up_cost of the colony equal to those of the store's colony k + 100, and a
\* second call of upgrade leaves the colony unchanged.
C20_ColonyUpgrade ==
    LET eligible(c) ==
            /\ c.kind = "Colony"
            /\ c.id < 100
            /\ c.up_cost # None
            /\ c.id + 100 \in DOMAIN data.colony
    IN  (call.op = "upgrade" /\ eligible(log[1].pre) /\ log[1].opt = 0) =>
            LET target == data.colony[log[1].pre.id + 100]
            IN  /\ Len(log) = 1 =>
                      /\ conv.name = target.name
                      /\ conv.id = target.id
                      /\ conv.typ = target.typ
                      /\ conv.conv = target.conv
                      /\ conv.up_cost = target.up_cost
                /\ Len(log) = 2 => conv = log[2].pre

\* C20 witness: a colony was upgraded to a store colony that differs from it in all
\* five fields and still has an upgrade cost, and upgrade was called a second time.
C20_Witness ==
    /\ call.op = "upgrade"
    /\ Len(log) = 2
    /\ log[1].opt = 0
    /\ log[1].pre.kind = "Colony"
    /\ log[1].pre.id < 100
    /\ log[1].pre.up_cost # None
    /\ conv.name # log[1].pre.name
    /\ conv.id = log[1].pre.id + 100
    /\ conv.typ # log[1].pre.typ
    /\ conv.conv # log[1].pre.conv
    /\ conv.up_cost \notin {None, log[1].pre.up_cost}

\* C21: upgrade(store, opt) leaves the entity unchanged whenever opt is not a valid
\* upgrade option for it (the entity is not upgradable, or opt >= upgrade_opts()),
\* and whenever the entity is already upgraded (a Colony whose id is 100 or more).
C21_InvalidUpgradeNoOp ==
    [][(log' # log) =>
          LET opt == log'[Len(log')].opt
              invalid ==
                  \/ ~upgradable(conv)
                  \/ opt >= unwrap_or(upgrade_opts(conv), 0)
                  \/ conv.kind = "Colony" /\ conv.id >= 100
          IN  invalid => conv' = conv]_vars

\* C22: for a KitConverter, upgrade_opts() is Some(4) when both sides are
\* upgradable, Some(2) when exactly one side is, None when neither is; when the left
\* side is upgradable, upgrade_cost(i) and upgrade(_, i) address the left side's
\* option i for i in {0, 1} and the right side's option i - 2 for i in {2, 3}; when
\* only the right side is upgradable, option i addresses the right side's option i.
C22_KitOptionIndices ==
    LET lup(k) == Generic_upgradable(k.l_conv)
        rup(k) == Generic_upgradable(k.r_conv)
    IN  /\ (conv.kind = "KitConverter" /\ call.op = "upgrade_opts") =>
              call.out = IF lup(conv) /\ rup(conv) THEN Some(4)
                         ELSE IF lup(conv) \/ rup(conv) THEN Some(2) ELSE None
        /\ (conv.kind = "KitConverter" /\ call.op = "upgrade_cost") =>
              LET i == call.rec[1]
              IN  /\ (lup(conv) /\ i \in {0, 1}) =>
                        call.out = Generic_upgrade_cost(conv.l_conv, i)
                  /\ (lup(conv) /\ i \in {2, 3}) =>
                        call.out = Generic_upgrade_cost(conv.r_conv, i - 2)
                  /\ (~lup(conv) /\ rup(conv) /\ i \in {0, 1}) =>
                        call.out = Generic_upgrade_cost(conv.r_conv, i)
        /\ (conv.kind = "KitConverter" /\ call.op = "upgrade") =>
              LET pre == log[Len(log)].pre
                  i == log[Len(log)].opt
              IN  /\ (lup(pre) /\ i \in {0, 1}) =>
                        /\ conv.l_conv = Generic_upgrade(pre.l_conv, data, i)
                        /\ conv.r_conv = pre.r_conv
                  /\ (lup(pre) /\ i \in {2, 3}) =>
                        /\ conv.l_conv = pre.l_conv
                        /\ conv.r_conv = Generic_upgrade(pre.r_conv, data, i - 2)
                  /\ (~lup(pre) /\ rup(pre) /\ i \in {0, 1}) =>
                        /\ conv.l_conv = pre.l_conv
                        /\ conv.r_conv = Generic_upgrade(pre.r_conv, data, i)

\* C22 witness: on a KitConverter with both sides upgradable, upgrade(_, 3) has
\* replaced the right side by the form of its option 1 and left the left side alone.
C22_Witness ==
    /\ conv.kind = "KitConverter"
    /\ call.op = "upgrade"
    /\ log[Len(log)].opt = 3
    /\ Generic_upgradable(log[Len(log)].pre.l_conv)
    /\ Generic_upgradable(log[Len(log)].pre.r_conv)
    /\ conv.r_conv.conv = log[Len(log)].pre.r_conv.up_convs[2]
    /\ conv.r_conv # log[Len(log)].pre.r_conv
    /\ conv.l_conv = log[Len(log)].pre.l_conv

\* C23: for every CubeRecord r, records with negative slots included, r.split()
\* returns (pos, neg) where no slot of pos is negative, no slot of neg is negative, in
\* each slot at most one of pos and neg is non-zero, and slot-wise pos - neg equals r.
C23_Split ==
    (call.op = "split") =>
        /\ ret = "value"
        /\ LET pos == call.out[1][1]
               neg == call.out[1][2]
           IN  \A slot \in DOMAIN record :
                   /\ pos[slot] >= 0
                   /\ neg[slot] >= 0
                   /\ pos[slot] = 0 \/ neg[slot] = 0
                   /\ pos[slot] - neg[slot] = record[slot]

\* C24: FactionType::bifurcate is an involution without fixed points over the 18
\* factions: bifurcate(bifurcate(f)) == f and bifurcate(f) != f for every f; it maps
\* each of the 9 factions of core() to a distinct faction of bifurcation() and back;
\* f and bifurcate(f) have the same short_name.
C24_BifurcateInvolution ==
    LET range(v) == {v[i] : i \in DOMAIN v}
    IN  /\ (call.op = "bifurcate") =>
              /\ ftype \in FactionType
              /\ ftype # log[Len(log)]
              /\ short_name(ftype) = short_name(log[Len(log)])
              /\ (Len(log) >= 2) => ftype = log[Len(log) - 1]
              /\ (log[Len(log)] \in range(core)) => ftype \in range(bifurcation)
              /\ (log[Len(log)] \in range(bifurcation)) => ftype \in range(core)
        /\ (call.op = "core") =>
              /\ Len(call.out) = 9
              /\ Cardinality(range(call.out)) = 9
              /\ {bifurcate(f) : f \in range(call.out)} = range(bifurcation)
        /\ (call.op = "bifurcation") =>
              /\ Len(call.out) = 9
              /\ Cardinality(range(call.out)) = 9
              /\ {bifurcate(f) : f \in range(call.out)} = range(core)
        /\ Cardinality(range(core) \cup range(bifurcation)) = 18
        /\ range(core) \cup range(bifurcation) = FactionType

\* C24 witness: bifurcate was called twice from YengiiCore, passing through
\* YengiiAlt and coming back.
C24_Witness ==
    /\ call.op = "bifurcate"
    /\ log = <<"YengiiCore", "YengiiAlt">>
    /\ ftype = "YengiiCore"

\* C25: at every point of a KitConverter's life, including after any call of upgrade
\* that changes the left or the right converter, output() equals the left converter's
\* current output followed by the right converter's current output, and input()
\* equals the left converter's current input.
C25_KitOutputCache ==
    (conv.kind = "KitConverter") =>
        /\ output(conv) = conv.l_conv.conv.output \o conv.r_conv.conv.output
        /\ input(conv) = conv.l_conv.conv.input

\* C26: for all Fractions a and b obtained from Fraction::new with a non-zero
\* denominator (of either sign) and from the arithmetic operators, a.cmp(b) is Less,
\* Equal or Greater exactly when the rational number a is less than, equal to or
\* greater than the rational number b, and a.cmp(b) == Equal exactly when a == b.
C26_Ordering ==
    (call.op = "cmp" /\ call.legal) =>
        LET a == frac
            b == call.rec[1]
            \* n/d scaled by the positive number (a.d * b.d)^2
            scaled(x, y) == x.n * x.d * y.d * y.d
        IN  /\ a.d # 0 /\ b.d # 0
            /\ (call.out = "Less") <=> (scaled(a, b) < scaled(b, a))
            /\ (call.out = "Equal") <=> (scaled(a, b) = scaled(b, a))
            /\ (call.out = "Greater") <=> (scaled(a, b) > scaled(b, a))
            /\ (call.out = "Equal") <=> (a = b)

\* C27: Deck::draw_next_matches(pred) terminates for every deck and predicate and
\* returns Some(x) where x is the item nearest the top of the deck that satisfies
\* pred, and returns None exactly when no item of the deck satisfies pred (the empty
\* deck included); draw_next returns the top item.
C27_DrawNearestMatch ==
    /\ (call.op = "draw_next_matches") =>
          LET pred == call.rec[1]
              matching == {i \in 1..Len(before) : before[i] \in pred}
          IN  /\ ret = "value"
              /\ (call.out = None) <=> (matching = {})
              /\ (call.out # None) =>
                    \E i \in matching :
                        /\ \A j \in matching : i <= j
                        /\ call.out = Some(before[i])
    /\ (call.op = "draw_next") =>
          call.out = IF before = <<>> THEN None ELSE Some(before[1])

\* C27 witness: draw_next_matches skipped the two items on top of a full deck and
\* returned the third, the only one the predicate accepts.
C27_Witness ==
    /\ call.op = "draw_next_matches"
    /\ Len(before) = MaxDeck
    /\ before[1] \notin call.rec[1]
    /\ before[2] \notin call.rec[1]
    /\ before[3] \in call.rec[1]
    /\ call.out = Some(before[3])

\* C28: over any sequence of draw_next, draw_next_matches, add_to_top and
\* add_to_bottom calls on a Deck, no item is lost or duplicated: the deck's contents
\* as a multiset always equal the initial items plus the items added minus the items
\* returned, and len() drops by exactly 1 on a call that returns Some and is unchanged
\* by a call that returns None.
C28_NoItemLost ==
    LET count(v, x) == Cardinality({i \in DOMAIN v : v[i] = x})
        initial == IF log = <<>> THEN deck ELSE log[1].pre
        added(x) == Cardinality({i \in DOMAIN log : log[i].added = <<x>>})
        returned(x) == Cardinality({i \in DOMAIN log : log[i].returned = Some(x)})
    IN  /\ \A x \in Cards :
              count(deck, x) = count(initial, x) + added(x) - returned(x)
        /\ (call.op \in {"draw_next", "draw_next_matches"}) =>
              len(deck) = len(before) - (IF call.out = None THEN 0 ELSE 1)

\* C28 witness: an item was added to the bottom of a deck and a draw_next_matches
\* call then passed over the top item and returned another one.
C28_Witness ==
    /\ Len(log) = 2
    /\ log[1].added # <<>>
    /\ call.op = "draw_next_matches"
    /\ call.out # None
    /\ call.out # Some(before[1])
    /\ Len(deck) = Len(log[1].pre)

\* C29: Deck::draw_next_matches keeps the top-to-bottom order of every item it does
\* not return: when it returns None the deck is in the same order as before the call,
\* and when it returns Some(x) the remaining items are in their previous relative
\* order with the same item on top as before unless that item was x.
C29_DrawKeepsOrder ==
    (call.op = "draw_next_matches") =>
        /\ (call.out = None) => deck = before
        /\ (call.out # None) =>
              \E k \in 1..Len(before) :
                  /\ before[k] = call.out[1]
                  /\ deck = SubSeq(before, 1, k - 1) \o SubSeq(before, k + 1, Len(before))

\* C30: for any two game states that differ only in phase and confluence, validate
\* returns the same result for every record other than ChangePhase: CreatePlayer, the
\* trades, Bid, TakeColony, TakeResearch and InventTech are accepted or rejected
\* independently of the current phase.
C30_PhaseIndependent ==
    (call.op = "validate" /\ call.rec.type # "ChangePhase") =>
        \A ph \in Phase, c \in 1..MaxConfluence :
            validate([game EXCEPT !.phase = ph, !.confluence = c], call.rec) = ret

\* C30 witness: a trade of a cube for a cube is accepted in phase Finish of a later
\* confluence.
C30_Witness ==
    /\ call.op = "validate"
    /\ call.rec.type = "TradeCubes"
    /\ call.rec.a_cubes # {}
    /\ call.rec.b_cubes # {}
    /\ ret = "true"
    /\ game.phase = "Finish"
    /\ game.confluence = MaxConfluence

====
